---- MODULE Spec2Model ----
(***************************************************************************)
(* Model of the ST7920 driver (src/src/lib.rs): the 1024-byte pixel buffer, *)
(* the orientation flag, the optional chip-select pin, and the sequence of  *)
(* collaborator calls (bus writes, pin drives, delays) every public         *)
(* operation makes.                                                          *)
(***************************************************************************)
EXTENDS Integers, Sequences, FiniteSets, TLC

VARIABLES buffer, flip, hasCs, csPin, pre, op, events, result, fault, nops

vars == <<buffer, flip, hasCs, csPin, pre, op, events, result, fault, nops>>

-----------------------------------------------------------------------------
(* Program constants.                                                       *)

WIDTH == 128
HEIGHT == 64
ROW_SIZE == WIDTH \div 8
BUFFER_SIZE == ROW_SIZE * HEIGHT
X_ADDR_DIV == 16
HALF_HEIGHT == HEIGHT \div 2

BasicFunction == 48
ExtendedFunction == 52
ClearScreen == 1
EntryMode == 6
DisplayOnCursorOff == 12
GraphicsOn == 54
SetGraphicsAddress == 128

CommandPrefix == 248
DataPrefix == 250

(* Bounds of the exploration.                                               *)
MaxOps == 3
MaxFail == 3

(* Calls of modify_buffer and clear_buffer_region in a behaviour.          *)
MaxBufferOps == 2

(* Inputs the callers are drawn from (8-bit values).                        *)
PixelXs == {20, 127, 128, 255}
PixelYs == {31, 63, 64}
PixelVals == {0, 1, 255}
(* Rectangles <<x, y, w, h>>: the whole display and beyond, a strip that    *)
(* crosses a 16-pixel boundary and the two halves, rectangles trimmed at    *)
(* the right and at the bottom edge, the bottom-right corner, and the       *)
(* degenerate ones.                                                         *)
Regions ==
    { <<0, 0, 255, 255>>, <<20, 30, 13, 3>>, <<20, 0, 255, 3>>,
      <<0, 30, 13, 255>>, <<120, 62, 8, 2>>, <<16, 16, 16, 16>>,
      <<15, 31, 2, 2>>, <<127, 63, 1, 1>>,
      <<0, 0, 0, 3>>, <<0, 0, 13, 0>>, <<128, 0, 13, 3>>, <<0, 64, 13, 3>>,
      <<255, 255, 255, 255>> }

-----------------------------------------------------------------------------
(* 8-bit arithmetic.                                                        *)

Bit(a, i) == (a \div (2 ^ i)) % 2

And8(a, b) ==
    Bit(a, 0) * Bit(b, 0) + 2 * Bit(a, 1) * Bit(b, 1)
    + 4 * Bit(a, 2) * Bit(b, 2) + 8 * Bit(a, 3) * Bit(b, 3)
    + 16 * Bit(a, 4) * Bit(b, 4) + 32 * Bit(a, 5) * Bit(b, 5)
    + 64 * Bit(a, 6) * Bit(b, 6) + 128 * Bit(a, 7) * Bit(b, 7)

Not8(a) == 255 - a

Or8(a, b) == Not8(And8(Not8(a), Not8(b)))

Shl8(a, n) == (a * (2 ^ n)) % 256

Shr8(a, n) == a \div (2 ^ n)

Sub8(a, b) == (a - b + 256) % 256

Add8(a, b) == (a + b) % 256

SaturatingAdd(a, b) == IF a + b > 255 THEN 255 ELSE a + b

-----------------------------------------------------------------------------
(* Pixel buffer.                                                            *)

(* Faulty variants of set_pixel_unchecked: the mask counted from the least  *)
(* significant bit, and the clearing branch without the complement.         *)
SetPixelUncheckedLsb(buf, f, x0, y0, val) ==
    LET y == IF f THEN Sub8(HEIGHT - 1, y0) ELSE y0
        x == IF f THEN Sub8(WIDTH - 1, x0) ELSE x0
        idx == y * ROW_SIZE + x \div 8
        x_mask == Shl8(1, x % 8)
    IN  IF idx >= BUFFER_SIZE
        THEN buf
        ELSE IF val # 0
        THEN [buf EXCEPT ![idx] = Or8(@, x_mask)]
        ELSE [buf EXCEPT ![idx] = And8(@, Not8(x_mask))]

SetPixelUncheckedKeepMask(buf, f, x0, y0, val) ==
    LET y == IF f THEN Sub8(HEIGHT - 1, y0) ELSE y0
        x == IF f THEN Sub8(WIDTH - 1, x0) ELSE x0
        idx == y * ROW_SIZE + x \div 8
        x_mask == Shr8(128, x % 8)
    IN  IF idx >= BUFFER_SIZE
        THEN buf
        ELSE IF val # 0
        THEN [buf EXCEPT ![idx] = Or8(@, x_mask)]
        ELSE [buf EXCEPT ![idx] = And8(@, x_mask)]

SetPixelUnchecked(buf, f, x0, y0, val) ==
    LET y == IF f THEN Sub8(HEIGHT - 1, y0) ELSE y0
        x == IF f THEN Sub8(WIDTH - 1, x0) ELSE x0
        idx == y * ROW_SIZE + x \div 8
        x_mask == Shr8(128, x % 8)
    IN  IF idx >= BUFFER_SIZE
        THEN buf  \* indexing panics, nothing is written; not reached from set_pixel
        ELSE IF val # 0
        THEN [buf EXCEPT ![idx] = Or8(@, x_mask)]
        ELSE [buf EXCEPT ![idx] = And8(@, Not8(x_mask))]

(* Faulty variant of the bounds test: inclusive comparisons.                *)
SetPixelInBoundsInclusive(x, y) == x <= WIDTH /\ y <= HEIGHT

SetPixelInBounds(x, y) == x < WIDTH /\ y < HEIGHT

SetPixelBuf(buf, f, x, y, val) ==
    IF SetPixelInBounds(x, y) THEN SetPixelUnchecked(buf, f, x, y, val) ELSE buf

-----------------------------------------------------------------------------
(* Collaborator calls.  A call is <<kind, argument>>: a bus write of three   *)
(* bytes, a drive of the chip-select or reset pin to a level, or a delay in  *)
(* microseconds.                                                             *)

SpiWrite(bytes) == <<"spi", bytes>>
SetHigh(pin) == <<pin, 1>>
SetLow(pin) == <<pin, 0>>
DelayUs(us) == <<"delay", us>>

EnableCs(cs) == IF cs THEN <<SetHigh("cs"), DelayUs(1)>> ELSE <<>>

DisableCs(cs) == IF cs THEN <<DelayUs(1), SetHigh("cs")>> ELSE <<>>

(* Faulty variant of hard_reset: the pulse in microseconds, not in ms.      *)
HardResetShort ==
    <<SetLow("rst"), DelayUs(40), SetHigh("rst"), DelayUs(40)>>

HardReset ==
    <<SetLow("rst"), DelayUs(40 * 1000), SetHigh("rst"), DelayUs(40 * 1000)>>

(* The two payload bytes of a frame: v & 0xF0 keeps the high nibble,        *)
(* (v << 4) & 0xF0 moves the low nibble up (the shift is 8-bit).            *)
HighNibble(v) == v - (v % 16)

(* Faulty variant of the second payload byte: the low nibble left in place. *)
LowNibbleInPlace(v) == v % 16

LowNibbleShifted(v) == ((v * 16) % 256) - (((v * 16) % 256) % 16)

WriteCommandParam(command, param) ==
    LET command_param == Or8(command, param)
    IN  SpiWrite(<<CommandPrefix, HighNibble(command_param),
                   LowNibbleShifted(command_param)>>)

WriteCommand(command) == WriteCommandParam(command, 0)

WriteData(data) ==
    SpiWrite(<<DataPrefix, HighNibble(data), LowNibbleShifted(data)>>)

(* Faulty variant of set_address: the column address sent first.            *)
SetAddressColumnFirst(x, y) ==
    << WriteCommandParam(SetGraphicsAddress,
                         IF y < HALF_HEIGHT
                         THEN x \div X_ADDR_DIV
                         ELSE x \div X_ADDR_DIV + (WIDTH \div X_ADDR_DIV)),
       WriteCommandParam(SetGraphicsAddress,
                         IF y < HALF_HEIGHT THEN y ELSE y - HALF_HEIGHT) >>

SetAddress(x, y) ==
    << WriteCommandParam(SetGraphicsAddress,
                         IF y < HALF_HEIGHT THEN y ELSE y - HALF_HEIGHT),
       WriteCommandParam(SetGraphicsAddress,
                         IF y < HALF_HEIGHT
                         THEN x \div X_ADDR_DIV
                         ELSE x \div X_ADDR_DIV + (WIDTH \div X_ADDR_DIV)) >>

(* The calls of init, in program order.                                     *)
InitCalls(cs) ==
    EnableCs(cs) \o HardReset \o
    << WriteCommand(BasicFunction), DelayUs(200),
       WriteCommand(DisplayOnCursorOff), DelayUs(100),
       WriteCommand(ClearScreen), DelayUs(10 * 1000),
       WriteCommand(EntryMode), DelayUs(100),
       WriteCommand(ExtendedFunction), DelayUs(10 * 1000),
       WriteCommand(GraphicsOn), DelayUs(100 * 1000) >> \o
    DisableCs(cs)

(* The calls of flush: per row-address y, set_address(0, y), the 16 bytes   *)
(* of row y and the 16 bytes of row y + 32.  FlushRowCall is call k (from   *)
(* 0) of the loop body for y.                                               *)
FlushRowLen == 2 + 2 * ROW_SIZE

(* Faulty variant of the flush loop body: the second run of bytes taken     *)
(* from the next row instead of the row 32 below.                           *)
FlushRowCallNextRow(buf, y, k) ==
    LET row_start == y * ROW_SIZE
        second_start == row_start + ROW_SIZE
    IN  IF k < 2 THEN SetAddress(0, y)[k + 1]
        ELSE IF k < 2 + ROW_SIZE THEN WriteData(buf[row_start + (k - 2)])
        ELSE WriteData(buf[second_start + (k - 2 - ROW_SIZE)])

FlushRowCall(buf, y, k) ==
    LET row_start == y * ROW_SIZE
        second_start == row_start + (HEIGHT \div 2) * ROW_SIZE
    IN  IF k < 2 THEN SetAddress(0, y)[k + 1]
        ELSE IF k < 2 + ROW_SIZE THEN WriteData(buf[row_start + (k - 2)])
        ELSE WriteData(buf[second_start + (k - 2 - ROW_SIZE)])

(* Faulty variant: a flush that directly follows a successful flush sends   *)
(* nothing, taking the display to be up to date.                            *)
FlushCallsWhenChanged(buf, cs) ==
    IF op.name = "flush" /\ result = "ok"
    THEN EnableCs(cs) \o DisableCs(cs)
    ELSE EnableCs(cs) \o
         [i \in 1 .. (HEIGHT \div 2) * FlushRowLen |->
             FlushRowCall(buf, (i - 1) \div FlushRowLen, (i - 1) % FlushRowLen)] \o
         DisableCs(cs)

FlushCalls(buf, cs) ==
    EnableCs(cs) \o
    [i \in 1 .. (HEIGHT \div 2) * FlushRowLen |->
        FlushRowCall(buf, (i - 1) \div FlushRowLen, (i - 1) % FlushRowLen)] \o
    DisableCs(cs)

(* The region test and trimming at the head of flush_region.                *)
(* Faulty variant of the region test: the size is not looked at.            *)
RegionOnScreenAnySize(x, y, w, h) == x < WIDTH /\ y < HEIGHT

RegionOnScreen(x, y, w, h) == x < WIDTH /\ y < HEIGHT /\ w > 0 /\ h > 0

(* Faulty variant of the width trimming: x + w in wrapping 8-bit addition.  *)
TrimWWrapping(x, w) == IF Add8(x, w) > WIDTH THEN Sub8(WIDTH, x) ELSE w

TrimW(x, w) == IF SaturatingAdd(x, w) > WIDTH THEN Sub8(WIDTH, x) ELSE w

TrimH(y, h) == IF SaturatingAdd(y, h) > HEIGHT THEN Sub8(HEIGHT, y) ELSE h

(* Top row and left edge after the orientation transform.                   *)
RegionTop(f, y, h) == IF f THEN Sub8(HEIGHT, Add8(y, h)) ELSE y

(* Faulty variant of the flipped left edge: mirrored about WIDTH - 1, as a  *)
(* single pixel is.                                                         *)
RegionAdjXAsPixel(f, x, w) == IF f THEN Sub8(WIDTH - 1, Add8(x, w)) ELSE x

RegionAdjX(f, x, w) == IF f THEN Sub8(WIDTH, Add8(x, w)) ELSE x

RegionLeft(adj_x) ==
    LET left == Sub8(adj_x, adj_x % X_ADDR_DIV)
    IN  IF left > adj_x THEN Sub8(left, X_ADDR_DIV) ELSE left

(* Faulty variant of the right edge: rounded down, the last strip dropped.  *)
RegionRightRoundedDown(adj_x, w) ==
    LET right == Sub8(Add8(adj_x, w), 1)
    IN  Sub8(right, right % X_ADDR_DIV)

RegionRight(adj_x, w) ==
    LET right == Sub8(Add8(adj_x, w), 1)
    IN  Add8(Sub8(right, right % X_ADDR_DIV), X_ADDR_DIV)

(* Bytes per row: the loop `for x in left / 8..right / 8`.                   *)
RegionRowBytes(adj_x, w) ==
    LET first == RegionLeft(adj_x) \div 8
        last == RegionRight(adj_x, w) \div 8
    IN  IF last > first THEN last - first ELSE 0

(* Call k (from 0) of the loop body for row y.                              *)
(* Faulty variant: the bytes taken from the start of the row.               *)
RegionRowCallFromRowStart(buf, adj_x, y, k) ==
    LET row_start == y * ROW_SIZE
    IN  IF k < 2 THEN SetAddress(adj_x, y)[k + 1]
        ELSE WriteData(buf[row_start + (k - 2)])

RegionRowCall(buf, adj_x, y, k) ==
    LET row_start == y * ROW_SIZE
    IN  IF k < 2 THEN SetAddress(adj_x, y)[k + 1]
        ELSE WriteData(buf[row_start + RegionLeft(adj_x) \div 8 + (k - 2)])

(* The buffer indices flush_region reads: row_start + x for every row of    *)
(* the span and x in left / 8 .. right / 8 - 1.                             *)
RegionIndicesRead(f, x, y0, w0, h0) ==
    IF RegionOnScreen(x, y0, w0, h0)
    THEN LET w == TrimW(x, w0)
             h == TrimH(y0, h0)
             y == RegionTop(f, y0, h)
             adj_x == RegionAdjX(f, x, w)
         IN  { r * ROW_SIZE + RegionLeft(adj_x) \div 8 + k :
                 r \in y .. y + h - 1, k \in 0 .. RegionRowBytes(adj_x, w) - 1 }
    ELSE {}

FlushRegionCalls(buf, f, cs, x, y0, w0, h0) ==
    IF RegionOnScreen(x, y0, w0, h0)
    THEN LET w == TrimW(x, w0)
             h == TrimH(y0, h0)
             y == RegionTop(f, y0, h)
             adj_x == RegionAdjX(f, x, w)
             len == 2 + RegionRowBytes(adj_x, w)
         IN  EnableCs(cs) \o
             SetAddress(adj_x, y) \o
             [i \in 1 .. h * len |->
                 RegionRowCall(buf, adj_x, y + (i - 1) \div len, (i - 1) % len)] \o
             DisableCs(cs)
    ELSE <<>>

-----------------------------------------------------------------------------
(* Error propagation: every collaborator call is followed by `?`, so the    *)
(* first failing call is the last call made and its kind tags the error.    *)

ErrorTag(call) ==
    IF call[1] = "spi" THEN "Comm"
    ELSE IF call[1] = "delay" THEN "Delay"
    ELSE "Pin"

(* Faulty variant: the failure is noted but the remaining calls are made.   *)
CallsMadeToTheEnd(calls, f) == calls

CallsMade(calls, f) == IF f = 0 THEN calls ELSE SubSeq(calls, 1, f)

Outcome(calls, f) == IF f = 0 THEN "ok" ELSE ErrorTag(calls[f])

(* The calls that completed, and the level they leave a pin at.             *)
Completed(calls, f) == IF f = 0 THEN calls ELSE SubSeq(calls, 1, f - 1)

PinAfter(pin, level, done) ==
    LET S == {i \in 1 .. Len(done) : done[i][1] = pin}
    IN  IF S = {} THEN level
        ELSE done[CHOOSE i \in S : \A j \in S : j <= i][2]

(* Which call the environment makes fail: none (0), one of the first        *)
(* MaxFail calls or one of the last MaxFail calls.                          *)
FailChoices(n) == {0} \cup {i \in 1 .. n : i <= MaxFail \/ i > n - MaxFail}

-----------------------------------------------------------------------------
(* `after` names the call a flush directly follows, with no call between.   *)
NoOp == [name |-> "none", x |-> 0, y |-> 0, w |-> 0, h |-> 0, val |-> 0, after |-> "none"]

Init ==
    /\ buffer = [i \in 0 .. BUFFER_SIZE - 1 |-> 0]
    /\ flip \in BOOLEAN
    /\ hasCs \in BOOLEAN
    /\ csPin = "unset"
    /\ pre = [i \in 0 .. BUFFER_SIZE - 1 |-> 0]
    /\ op = NoOp
    /\ events = <<>>
    /\ result = "ok"
    /\ fault = 0
    /\ nops = 0

(* The journal <<pre, op, events, result, fault>> describes the last call.  *)
(* A call that drives the hardware starts from an empty journal; set_pixel  *)
(* calls may follow one another directly.                                   *)
Idle == op.name = "none"

SetPixel(x, y, val) ==
    /\ Idle \/ op.name = "set_pixel"
    /\ nops < MaxOps
    /\ nops' = nops + 1
    /\ buffer' = SetPixelBuf(buffer, flip, x, y, val)
    /\ pre' = buffer
    /\ op' = [NoOp EXCEPT !.name = "set_pixel", !.x = x, !.y = y, !.val = val]
    /\ events' = <<>>
    /\ result' = "ok"
    /\ fault' = 0
    /\ UNCHANGED <<flip, hasCs, csPin>>

(* Faulty variant: the buffer is dropped once the calls have been made.     *)
TransactDroppingBuffer(calls, f) ==
    /\ events' = CallsMade(calls, f)
    /\ result' = Outcome(calls, f)
    /\ fault' = f
    /\ csPin' = PinAfter("cs", csPin, Completed(calls, f))
    /\ pre' = buffer
    /\ buffer' = [i \in 0 .. BUFFER_SIZE - 1 |-> 0]
    /\ UNCHANGED <<flip, hasCs, nops>>

Transact(calls, f) ==
    /\ events' = CallsMade(calls, f)
    /\ result' = Outcome(calls, f)
    /\ fault' = f
    /\ csPin' = PinAfter("cs", csPin, Completed(calls, f))
    /\ pre' = buffer
    /\ UNCHANGED <<buffer, flip, hasCs, nops>>

InitDisplay ==
    /\ Idle
    /\ op' = [NoOp EXCEPT !.name = "init"]
    /\ \E calls \in {InitCalls(hasCs)} :
          \E f \in FailChoices(Len(calls)) : Transact(calls, f)

Flush ==
    /\ Idle \/ (op.name = "flush" /\ result = "ok") \/ op.name = "clear_buffer"
    /\ op' = [NoOp EXCEPT !.name = "flush", !.after = op.name]
    /\ \E calls \in {FlushCalls(buffer, hasCs)} :
          \E f \in FailChoices(Len(calls)) : Transact(calls, f)

FlushRegion(x, y, w, h) ==
    /\ Idle
    /\ op' = [NoOp EXCEPT !.name = "flush_region", !.x = x, !.y = y, !.w = w, !.h = h]
    /\ \E calls \in {FlushRegionCalls(buffer, flip, hasCs, x, y, w, h)} :
          \E f \in FailChoices(Len(calls)) : Transact(calls, f)

(* flush_region_graphics takes a signed 32-bit corner and an unsigned       *)
(* 32-bit size.  The sizes drawn here stay below 2^31.                      *)
I32_MIN == -2147483647 - 1

Min(a, b) == IF a < b THEN a ELSE b

GraphicsRegions ==
    { <<20, 30, 13, 3>>, <<-10, -5, 300, 8>>, <<-10, 0, 5, 5>>, <<-10, 0, 10, 5>>,
      <<300, 0, 5, 5>>, <<256, 0, 16, 1>>, <<0, 60, 272, 257>>,
      <<100, 50, 1000, 70000>>, <<127, 63, 2147483647, 2147483647>>,
      <<0, 64, 5, 5>>, <<-2147483647, -2147483647, 2147483647, 2147483647>>,
      <<I32_MIN, 0, 2147483647, 3>>, <<0, I32_MIN, 1, 1>> }

(* `-x` on an i32: overflows for i32::MIN only.  A build with overflow      *)
(* checks panics there; a build without them wraps to i32::MIN, which       *)
(* `as u32` reads as 2^31.                                                  *)
NegationOverflows(x) == x = I32_MIN

(* width.saturating_sub((-x) as u32) for x < 0, in a build where the        *)
(* negation does not panic (2^31 exceeds every size drawn).                 *)
SaturatingSubNeg(width, x) ==
    IF NegationOverflows(x) THEN 0
    ELSE IF width > -x THEN width - (-x) ELSE 0

GraphicsSize(x, width) == Min(IF x < 0 THEN SaturatingSubNeg(width, x) ELSE width, 255)

GraphicsCorner(x) == Min(IF x < 0 THEN 0 ELSE x, 255)

FlushRegionGraphicsCalls(buf, f, cs, x, y, width, height) ==
    FlushRegionCalls(buf, f, cs, GraphicsCorner(x), GraphicsCorner(y),
                     GraphicsSize(x, width), GraphicsSize(y, height))

(* A panic ends the program: nothing is returned and no call follows.       *)
Panic(made) ==
    /\ events' = made
    /\ result' = "panic"
    /\ fault' = 0
    /\ pre' = buffer

FlushRegionGraphics(x, y, width, height) ==
    /\ Idle
    /\ op' = [NoOp EXCEPT !.name = "flush_region_graphics",
                          !.x = x, !.y = y, !.w = width, !.h = height]
    /\ \E overflowChecks \in BOOLEAN :
          IF overflowChecks /\ (NegationOverflows(x) \/ NegationOverflows(y))
          THEN Panic(<<>>) /\ UNCHANGED <<buffer, flip, hasCs, csPin, nops>>
          ELSE \E calls \in {FlushRegionGraphicsCalls(buffer, flip, hasCs, x, y, width, height)} :
                  \E f \in FailChoices(Len(calls)) : Transact(calls, f)

(* clear_buffer: every byte becomes 0; no collaborator is called.           *)
(* Faulty variant: the last byte is left as it is.                          *)
ClearedBufferButLast ==
    [i \in 0 .. BUFFER_SIZE - 1 |-> IF i = BUFFER_SIZE - 1 THEN buffer[i] ELSE 0]

ClearedBuffer == [i \in 0 .. BUFFER_SIZE - 1 |-> 0]

ClearBuffer ==
    /\ Idle
    /\ op' = [NoOp EXCEPT !.name = "clear_buffer"]
    /\ buffer' = ClearedBuffer
    /\ pre' = buffer
    /\ events' = <<>>
    /\ result' = "ok"
    /\ fault' = 0
    /\ UNCHANGED <<flip, hasCs, csPin, nops>>

(* clear: clear_buffer, then flush of the cleared buffer.                   *)
Clear ==
    /\ Idle
    /\ op' = [NoOp EXCEPT !.name = "clear"]
    /\ buffer' = ClearedBuffer
    /\ \E calls \in {FlushCalls(ClearedBuffer, hasCs)} :
          \E f \in FailChoices(Len(calls)) :
             /\ events' = CallsMade(calls, f)
             /\ result' = Outcome(calls, f)
             /\ fault' = f
             /\ csPin' = PinAfter("cs", csPin, Completed(calls, f))
    /\ pre' = buffer
    /\ UNCHANGED <<flip, hasCs, nops>>

(* modify_buffer(f): the functions a caller may pass.  "pattern" is the     *)
(* one of the documentation.                                                *)
Modifiers == {"pattern", "invert", "position"}

ModifierApply(fn, x, y, v) ==
    IF fn = "pattern" THEN (IF x % 2 = y % 2 THEN Or8(v, 170) ELSE v)
    ELSE IF fn = "invert" THEN Not8(v)
    ELSE (16 * x + y) % 256

(* Faulty variant: row and column taken the other way round.                *)
ModifyCallByColumns(buf, i) ==
    <<"f", <<i \div ROW_SIZE, i - ((i \div ROW_SIZE) * ROW_SIZE), buf[i]>>>>

(* The arguments of the call of f for byte i: column, row, current byte.    *)
ModifyCall(buf, i) ==
    <<"f", <<i - ((i \div ROW_SIZE) * ROW_SIZE), i \div ROW_SIZE, buf[i]>>>>

(* The journal of modify_buffer lists the calls of f, in order.             *)
ModifyBuffer(fn) ==
    /\ Idle
    /\ nops < MaxBufferOps
    /\ nops' = nops + 1
    /\ op' = [NoOp EXCEPT !.name = "modify_buffer", !.val = fn]
    /\ \E calls \in {[k \in 1 .. BUFFER_SIZE |-> ModifyCall(buffer, k - 1)]} :
          /\ events' = calls
          /\ buffer' = [i \in 0 .. BUFFER_SIZE - 1 |->
                          ModifierApply(fn, calls[i + 1][2][1], calls[i + 1][2][2],
                                        calls[i + 1][2][3])]
    /\ pre' = buffer
    /\ result' = "ok"
    /\ fault' = 0
    /\ UNCHANGED <<flip, hasCs, csPin>>

(* clear_buffer_region repeats the guard, the trimming and the orientation  *)
(* transform of flush_region, then clears whole bytes first .. last of      *)
(* every row of the span, the first one under a mask.                       *)
ClearStart(adj_x) == adj_x \div 8

ClearEnd(adj_x, w) == Add8(Add8(adj_x, w) \div 8, 1)

ClearStartGap(adj_x) == adj_x % 8

ClearEndGap(adj_x, w) == Sub8(8, Shl8(ClearEnd(adj_x, w), 3) % 8)

ClearMask(x, adj_x, w) ==
    LET mask == IF x = ClearStart(adj_x) THEN Shr8(255, ClearStartGap(adj_x)) ELSE 255
    IN  IF x = ClearEnd(adj_x, w)
        THEN And8(mask, Shr8(255, ClearEndGap(adj_x, w)))
        ELSE mask

(* The loops make the writes buffer[16 r + c] &= !mask(c) for r in          *)
(* y .. y + h - 1 and c in start .. end - 1.  Byte i is written with        *)
(* c = i mod 16 by row i div 16 and, when end is 17, with c = 16 by the     *)
(* row above it.                                                            *)
ClearWritesByte(i, r, c, adj_x, y, w, h) ==
    /\ 16 * r + c = i
    /\ y <= r /\ r < y + h
    /\ ClearStart(adj_x) <= c /\ c < ClearEnd(adj_x, w)

ClearRegionByte(v, i, adj_x, y, w, h) ==
    LET own   == ClearWritesByte(i, i \div 16, i % 16, adj_x, y, w, h)
        above == i >= 16 /\ ClearWritesByte(i, (i \div 16) - 1, 16 + (i % 16), adj_x, y, w, h)
        v1    == IF own THEN And8(v, Not8(ClearMask(i % 16, adj_x, w))) ELSE v
    IN  IF above THEN And8(v1, Not8(ClearMask(16 + (i % 16), adj_x, w))) ELSE v1

ClearRegionBuffer(buf, f, x, y0, w0, h0) ==
    LET w == TrimW(x, w0)
        h == TrimH(y0, h0)
        y == RegionTop(f, y0, h)
        adj_x == RegionAdjX(f, x, w)
    IN  [i \in 0 .. BUFFER_SIZE - 1 |-> ClearRegionByte(buf[i], i, adj_x, y, w, h)]

(* The last write of the last row is the highest index written; indexing    *)
(* panics when it is outside the buffer, after every other write.           *)
ClearRegionPanics(f, x, y0, w0, h0) ==
    LET w == TrimW(x, w0)
        h == TrimH(y0, h0)
        y == RegionTop(f, y0, h)
        adj_x == RegionAdjX(f, x, w)
    IN  (y + h - 1) * ROW_SIZE + (ClearEnd(adj_x, w) - 1) >= BUFFER_SIZE

ClearBufferRegion(x, y, w, h) ==
    /\ Idle
    /\ nops < MaxBufferOps
    /\ nops' = nops + 1
    /\ op' = [NoOp EXCEPT !.name = "clear_buffer_region", !.x = x, !.y = y, !.w = w, !.h = h]
    /\ IF ~RegionOnScreen(x, y, w, h)
       THEN /\ events' = <<>>
            /\ result' = "ok"
            /\ fault' = 0
            /\ pre' = buffer
            /\ UNCHANGED <<buffer, csPin>>
       ELSE \E f \in FailChoices(Len(EnableCs(hasCs) \o DisableCs(hasCs))) :
               IF f # 0 /\ f <= Len(EnableCs(hasCs))
               THEN /\ events' = CallsMade(EnableCs(hasCs), f)
                    /\ result' = Outcome(EnableCs(hasCs), f)
                    /\ fault' = f
                    /\ csPin' = PinAfter("cs", csPin, Completed(EnableCs(hasCs), f))
                    /\ pre' = buffer
                    /\ UNCHANGED buffer
               ELSE /\ buffer' = ClearRegionBuffer(buffer, flip, x, y, w, h)
                    /\ csPin' = PinAfter("cs", csPin,
                                         IF ClearRegionPanics(flip, x, y, w, h)
                                         THEN EnableCs(hasCs)
                                         ELSE Completed(EnableCs(hasCs) \o DisableCs(hasCs), f))
                    /\ IF ClearRegionPanics(flip, x, y, w, h)
                       THEN Panic(EnableCs(hasCs))
                       ELSE /\ events' = CallsMade(EnableCs(hasCs) \o DisableCs(hasCs), f)
                            /\ result' = Outcome(EnableCs(hasCs) \o DisableCs(hasCs), f)
                            /\ fault' = f
                            /\ pre' = buffer
    /\ UNCHANGED <<flip, hasCs>>

(* The caller takes the result; the journal of the finished call is        *)
(* dropped.                                                                 *)
Return ==
    /\ ~Idle
    /\ result # "panic"
    /\ op' = NoOp
    /\ events' = <<>>
    /\ result' = "ok"
    /\ fault' = 0
    /\ pre' = buffer
    /\ UNCHANGED <<buffer, flip, hasCs, csPin, nops>>

Next ==
    \/ \E x \in PixelXs, y \in PixelYs, val \in PixelVals : SetPixel(x, y, val)
    \/ InitDisplay
    \/ Flush
    \/ \E r \in Regions : FlushRegion(r[1], r[2], r[3], r[4])
    \/ \E r \in GraphicsRegions : FlushRegionGraphics(r[1], r[2], r[3], r[4])
    \/ ClearBuffer
    \/ Clear
    \/ Return

Spec == Init /\ [][Next]_vars

(* The private bus primitives, called on their own over their whole input   *)
(* range.  The journal of write_command_param holds the opcode in x and    *)
(* the parameter in val.                                                    *)
Instructions ==
    {BasicFunction, ExtendedFunction, ClearScreen, EntryMode, DisplayOnCursorOff,
     GraphicsOn, SetGraphicsAddress}

CallWriteCommandParam(command, param) ==
    /\ Idle
    /\ op' = [NoOp EXCEPT !.name = "write_command_param", !.x = command, !.val = param]
    /\ \E f \in FailChoices(1) : Transact(<<WriteCommandParam(command, param)>>, f)

CallWriteData(data) ==
    /\ Idle
    /\ op' = [NoOp EXCEPT !.name = "write_data", !.val = data]
    /\ \E f \in FailChoices(1) : Transact(<<WriteData(data)>>, f)

CallSetAddress(x, y) ==
    /\ Idle
    /\ op' = [NoOp EXCEPT !.name = "set_address", !.x = x, !.y = y]
    /\ \E f \in FailChoices(2) : Transact(SetAddress(x, y), f)

NextProtocol ==
    \/ Idle /\ \E command \in Instructions, param \in 0 .. 255 :
                  CallWriteCommandParam(command, param)
    \/ Idle /\ \E data \in 0 .. 255 : CallWriteData(data)
    \/ Idle /\ \E x \in 0 .. WIDTH - 1, y \in 0 .. HEIGHT - 1 : CallSetAddress(x, y)
    \/ Return

SpecProtocol == Init /\ [][NextProtocol]_vars

(* The operations on the buffer alone, on richer buffer contents.           *)
NextBuffer ==
    \/ \E fn \in Modifiers : ModifyBuffer(fn)
    \/ ClearBuffer
    \/ \E r \in Regions : ClearBufferRegion(r[1], r[2], r[3], r[4])
    \/ Return

SpecBuffer == Init /\ [][NextBuffer]_vars

-----------------------------------------------------------------------------
(* Observers used by the properties below.                                  *)

IoOps == {"init", "flush", "flush_region"}

IsFrame(e) == e[1] = "spi"

(* The bus frames of a call sequence, in order.                             *)
BusFrames(calls) == SelectSeq(calls, IsFrame)

FramePrefix(e) == e[2][1]

(* The payload a receiver reassembles: byte2 | (byte3 >> 4).                *)
FramePayload(e) == e[2][2] + (e[2][3] \div 16)

IsCommandFrame(e) == IsFrame(e) /\ FramePrefix(e) = 248

IsDataFrame(e) == IsFrame(e) /\ FramePrefix(e) = 250

(* The buffer byte and bit set_pixel addresses for pixel (px, py).          *)
PixelByte(f, px, py) ==
    IF f THEN (63 - py) * 16 + ((127 - px) \div 8) ELSE py * 16 + (px \div 8)

PixelBit(f, px) == IF f THEN 7 - ((127 - px) % 8) ELSE 7 - (px % 8)

(* The display controller in graphics mode.  Set-address commands arrive in *)
(* pairs, row address (0..31) then column address (0..15); data bytes go to *)
(* the addressed 16-pixel column, high byte then low byte, and the column   *)
(* address advances after every second byte.  Columns 0..7 are the top      *)
(* half of the display, columns 8..15 the bottom half.                      *)
ControllerReset == [row |-> 0, col |-> 0, half |-> 0, phase |-> "row"]

ControllerStep(st, e) ==
    IF IsCommandFrame(e) /\ FramePayload(e) >= 128
    THEN IF st.phase = "row"
         THEN [st EXCEPT !.row = (FramePayload(e) - 128) % 64, !.phase = "col"]
         ELSE [st EXCEPT !.col = (FramePayload(e) - 128) % 16, !.phase = "row",
                         !.half = 0]
    ELSE IF IsDataFrame(e)
    THEN [st EXCEPT !.half = 1 - st.half,
                    !.col = IF st.half = 1 THEN (st.col + 1) % 16 ELSE st.col]
    ELSE st

ControllerWrite(st, e) ==
    IF IsDataFrame(e) THEN << <<st.row, st.col, st.half, FramePayload(e)>> >> ELSE <<>>

(* Feeding frames lo..hi to the controller in state st: the state it ends   *)
(* in and the memory writes <<row, col, half, byte>> it made, in order      *)
(* (the first part is run before the second starts from its end state).     *)
ControllerJoin(a, b) == [writes |-> a.writes \o b.writes, st |-> b.st]

RECURSIVE ControllerRun(_, _, _, _)
ControllerThen(frames, lo, hi, a) ==
    ControllerJoin(a, ControllerRun(frames, lo, hi, a.st))

ControllerRun(frames, lo, hi, st) ==
    IF lo > hi THEN [st |-> st, writes |-> <<>>]
    ELSE IF lo = hi
    THEN [st |-> ControllerStep(st, frames[lo]), writes |-> ControllerWrite(st, frames[lo])]
    ELSE ControllerThen(frames, ((lo + hi) \div 2) + 1, hi,
                        ControllerRun(frames, lo, (lo + hi) \div 2, st))

ControllerWrites(frames) == ControllerRun(frames, 1, Len(frames), ControllerReset).writes

(* The buffer byte shown at a display memory location.                      *)
DisplayIndex(wr) ==
    IF wr[2] < 8
    THEN wr[1] * 16 + 2 * wr[2] + wr[3]
    ELSE (wr[1] + 32) * 16 + 2 * (wr[2] - 8) + wr[3]

-----------------------------------------------------------------------------
(* Properties.                                                              *)

RegionDone ==
    /\ op.name = "flush_region"
    /\ result = "ok"
    /\ op.x < 128 /\ op.y < 64 /\ op.w > 0 /\ op.h > 0

(* The buffer bytes that hold the pixels of the rectangle of the last call, *)
(* trimmed to the display.                                                  *)
RegionBytes ==
    LET w == Min(op.w, 128 - op.x)
        h == Min(op.h, 64 - op.y)
    IN  { PixelByte(flip, px, py) :
            px \in op.x .. (op.x + w - 1), py \in op.y .. (op.y + h - 1) }

(* C1: a successful flush_region on an on-screen, non-empty rectangle       *)
(* transmits, for every pixel of the trimmed rectangle, the buffer byte     *)
(* set_pixel writes for that pixel, to the display location of that byte,   *)
(* and only as whole 16-pixel strips: every high byte of a column is        *)
(* followed by the low byte of the same column, and every byte sent is the  *)
(* buffer byte of the location it lands on.                                 *)
C1_RegionFlushCovers ==
    RegionDone =>
        LET writes == ControllerWrites(BusFrames(events))
            landed == { <<DisplayIndex(writes[i]), writes[i][4]>> : i \in 1 .. Len(writes) }
        IN  /\ \A b \in RegionBytes : <<b, buffer[b]>> \in landed
            /\ \A pr \in landed : buffer[pr[1]] = pr[2]
            /\ \A i \in 1 .. Len(writes) :
                  IF writes[i][3] = 0
                  THEN /\ i < Len(writes)
                       /\ writes[i + 1][1] = writes[i][1]
                       /\ writes[i + 1][2] = writes[i][2]
                       /\ writes[i + 1][3] = 1
                  ELSE /\ i > 1
                       /\ writes[i - 1][3] = 0

C1_Witness ==
    /\ RegionDone
    /\ flip
    /\ op.x % 16 # 0
    /\ op.y < 32 /\ op.y + op.h > 32
    /\ \E b \in RegionBytes : buffer[b] # 0

(* C2: a successful flush sends exactly 32 addressing pairs, row address y  *)
(* for y = 0..31 in increasing order with column address 0, each followed   *)
(* by the 16 bytes of buffer row y and the 16 bytes of buffer row y + 32;   *)
(* the controller then holds every one of the 1024 buffer bytes, each       *)
(* written exactly once.                                                    *)
C2_FullFlushMirrorsBuffer ==
    (op.name = "flush" /\ result = "ok") =>
        LET bus == BusFrames(events)
            writes == ControllerWrites(bus)
        IN  /\ Len(bus) = 32 * 34
            /\ \A y \in 0 .. 31 :
                  /\ IsCommandFrame(bus[34 * y + 1])
                  /\ FramePayload(bus[34 * y + 1]) = 128 + y
                  /\ IsCommandFrame(bus[34 * y + 2])
                  /\ FramePayload(bus[34 * y + 2]) = 128
                  /\ \A k \in 0 .. 15 :
                        /\ IsDataFrame(bus[34 * y + 3 + k])
                        /\ FramePayload(bus[34 * y + 3 + k]) = buffer[16 * y + k]
                        /\ IsDataFrame(bus[34 * y + 19 + k])
                        /\ FramePayload(bus[34 * y + 19 + k]) = buffer[16 * (y + 32) + k]
            /\ Len(writes) = 1024
            /\ { DisplayIndex(writes[i]) : i \in 1 .. Len(writes) } = 0 .. 1023
            /\ \A i \in 1 .. Len(writes) : writes[i][4] = buffer[DisplayIndex(writes[i])]

C2_Witness ==
    /\ op.name = "flush"
    /\ result = "ok"
    /\ \E i \in 0 .. 511 : buffer[i] # 0
    /\ \E i \in 512 .. 1023 : buffer[i] # 0

(* C3: with a chip-select pin, every successful init, flush and             *)
(* non-degenerate flush_region drives chip-select to its asserted level,    *)
(* waits at least 1 us before the first frame, and after the last frame     *)
(* waits at least 1 us and drives chip-select to the opposite level, which  *)
(* is the level the pin is left at.                                         *)
C3_ChipSelectBracketing ==
    ( /\ hasCs
      /\ op.name \in IoOps
      /\ result = "ok"
      /\ op.name = "flush_region" => (op.x < 128 /\ op.y < 64 /\ op.w > 0 /\ op.h > 0) )
    => LET n == Len(events)
       IN  /\ n >= 4
           /\ events[1][1] = "cs"
           /\ events[2][1] = "delay" /\ events[2][2] >= 1
           /\ \A i \in 1 .. n : IsFrame(events[i]) => (2 < i /\ i < n - 1)
           /\ events[n - 1][1] = "delay" /\ events[n - 1][2] >= 1
           /\ events[n][1] = "cs"
           /\ events[n][2] # events[1][2]
           /\ csPin = events[n][2]

(* C4: in init, flush and flush_region the first failing collaborator call  *)
(* is the last call made, and the error carries the tag of that call: Comm  *)
(* for a bus write, Pin for a pin drive, Delay for a delay; without a       *)
(* failing call the operation succeeds.                                     *)
C4_FailFast ==
    op.name \in IoOps =>
        /\ fault = 0 => result = "ok"
        /\ fault # 0 =>
              /\ Len(events) = fault
              /\ events[fault][1] = "spi" => result = "Comm"
              /\ events[fault][1] \in {"cs", "rst"} => result = "Pin"
              /\ events[fault][1] = "delay" => result = "Delay"
              /\ result \in {"Comm", "Pin", "Delay"}

C4_Witness ==
    /\ op.name = "flush"
    /\ fault > 2
    /\ result = "Comm"
    /\ hasCs

(* C5: a successful init makes, after the optional chip-select preamble,    *)
(* exactly these calls in this order: reset low, delay >= 40 ms, reset      *)
(* high, delay >= 40 ms, then the command frames 0x30, 0x0C, 0x01, 0x06,    *)
(* 0x34, 0x36, each once and each followed by a delay >= 100 us; no frame   *)
(* comes before the end of the reset pulse.                                 *)
InitOpcodes == <<48, 12, 1, 6, 52, 54>>

C5_InitOrder ==
    (op.name = "init" /\ result = "ok") =>
        LET k == IF hasCs THEN 2 ELSE 0
        IN  /\ Len(events) = k + 16 + k
            /\ events[k + 1][1] = "rst" /\ events[k + 1][2] = 0
            /\ events[k + 2][1] = "delay" /\ events[k + 2][2] >= 40000
            /\ events[k + 3][1] = "rst" /\ events[k + 3][2] = 1
            /\ events[k + 4][1] = "delay" /\ events[k + 4][2] >= 40000
            /\ \A i \in 1 .. k + 4 : ~IsFrame(events[i])
            /\ \A j \in 1 .. 6 :
                  /\ IsCommandFrame(events[k + 3 + 2 * j])
                  /\ FramePayload(events[k + 3 + 2 * j]) = InitOpcodes[j]
                  /\ events[k + 4 + 2 * j][1] = "delay"
                  /\ events[k + 4 + 2 * j][2] >= 100
            /\ Len(BusFrames(events)) = 6

C5_Witness ==
    /\ op.name = "init"
    /\ result = "ok"
    /\ hasCs
    /\ Len(events) = 20

(* C6: an in-bounds set_pixel(x, y, value) changes only bit                 *)
(* 0x80 >> (x' % 8) of byte y' * 16 + x' / 8, (x', y') being (x, y) or,     *)
(* flipped, (127 - x, 63 - y); the bit becomes 1 for a non-zero value and   *)
(* 0 for zero; no other byte changes and no collaborator is called.         *)
C6_SetPixelOneBit ==
    (op.name = "set_pixel" /\ op.x < 128 /\ op.y < 64) =>
        LET xt == IF flip THEN 127 - op.x ELSE op.x
            yt == IF flip THEN 63 - op.y ELSE op.y
            idx == yt * 16 + (xt \div 8)
            pos == 7 - (xt % 8)
        IN  /\ \A i \in 0 .. 1023 : i # idx => buffer[i] = pre[i]
            /\ \A b \in 0 .. 7 : b # pos => Bit(buffer[idx], b) = Bit(pre[idx], b)
            /\ Bit(buffer[idx], pos) = (IF op.val # 0 THEN 1 ELSE 0)
            /\ events = <<>>
            /\ result = "ok"

C6_Witness ==
    /\ op.name = "set_pixel"
    /\ op.x = 20 /\ op.y = 31
    /\ flip
    /\ op.val = 0
    /\ buffer # pre
    /\ \E i \in 0 .. 1023 : buffer[i] # 0

(* C7: set_pixel with x >= 128 or y >= 64 leaves every buffer byte as it    *)
(* was, succeeds and calls no collaborator.                                 *)
C7_SetPixelOutOfBounds ==
    (op.name = "set_pixel" /\ (op.x >= 128 \/ op.y >= 64)) =>
        /\ buffer = pre
        /\ events = <<>>
        /\ result = "ok"

C7_Witness ==
    /\ op.name = "set_pixel"
    /\ op.x = 128 /\ op.y < 64
    /\ op.val # 0
    /\ \E i \in 0 .. 1023 : buffer[i] # 0

(* C8 concerns the step from the state after set_pixel(x, y, 1) to the      *)
(* state after set_pixel(x, y, 0), for an in-bounds (x, y); pre is then the *)
(* buffer before the two calls.                                             *)
C8_Pair ==
    /\ op.name = "set_pixel" /\ op.val = 1
    /\ op.x < 128 /\ op.y < 64
    /\ op'.name = "set_pixel" /\ op'.val = 0
    /\ op'.x = op.x /\ op'.y = op.y

(* C8 as stated: set_pixel(x, y, 1) then set_pixel(x, y, 0) leaves the      *)
(* byte holding the pixel equal to its value before the two calls.          *)
C8_RoundTripRestores ==
    [][C8_Pair =>
         buffer'[PixelByte(flip, op.x, op.y)] = pre[PixelByte(flip, op.x, op.y)]]_vars

(* C8 amended: set_pixel(x, y, 1) then set_pixel(x, y, 0) leaves the byte   *)
(* holding the pixel equal to its value before the two calls with that      *)
(* pixel's bit cleared, hence equal to that value when the pixel was 0.     *)
C8_SetThenClear ==
    [][C8_Pair =>
         LET b == PixelByte(flip, op.x, op.y)
             pos == PixelBit(flip, op.x)
         IN  buffer'[b] = pre[b] - Bit(pre[b], pos) * (2 ^ pos)]_vars

(* Reached after the pair when the pixel was set before it: the byte is     *)
(* left different from the buffer two set_pixel calls earlier.              *)
C8_Witness ==
    /\ op.name = "set_pixel" /\ op.val = 0
    /\ op.x < 128 /\ op.y < 64
    /\ nops = 3
    /\ Bit(pre[PixelByte(flip, op.x, op.y)], PixelBit(flip, op.x)) = 1
    /\ Bit(buffer[PixelByte(flip, op.x, op.y)], PixelBit(flip, op.x)) = 0

(* C9: flush_region with w = 0, h = 0, x >= 128 or y >= 64 calls no         *)
(* collaborator, leaves the buffer unchanged and succeeds.                  *)
C9_DegenerateRegion ==
    ( /\ op.name = "flush_region"
      /\ (op.w = 0 \/ op.h = 0 \/ op.x >= 128 \/ op.y >= 64) )
    => /\ events = <<>>
       /\ result = "ok"
       /\ fault = 0
       /\ buffer = pre

C9_Witness ==
    /\ op.name = "flush_region"
    /\ op.h = 0 /\ op.w > 0 /\ op.x < 128 /\ op.y < 64
    /\ hasCs
    /\ \E i \in 0 .. 1023 : buffer[i] # 0

(* C10: for a rectangle inside the display with w > 0 and h > 0, the bus    *)
(* frames of a successful flush_region(x, y, w, h) with flip on are the     *)
(* frames flush_region(128 - (x + w), 64 - (y + h), w, h) sends with flip   *)
(* off on the same buffer.                                                  *)
C10_FlipEquivalence ==
    ( /\ op.name = "flush_region"
      /\ result = "ok"
      /\ flip
      /\ op.w > 0 /\ op.h > 0
      /\ op.x + op.w <= 128 /\ op.y + op.h <= 64 )
    => BusFrames(events) =
         BusFrames(FlushRegionCalls(buffer, FALSE, hasCs,
                                    128 - (op.x + op.w), 64 - (op.y + op.h),
                                    op.w, op.h))

C10_Witness ==
    /\ op.name = "flush_region"
    /\ result = "ok"
    /\ flip
    /\ op.w > 0 /\ op.h > 0
    /\ op.x + op.w <= 128 /\ op.y + op.h <= 64
    /\ op.x % 16 # 0
    /\ \E i \in 1 .. Len(events) : IsDataFrame(events[i]) /\ FramePayload(events[i]) # 0

(* The part of [p, p + s) that lies in [0, limit), as [ClipLo, ClipHi).     *)
ClipLo(p) == IF p < 0 THEN 0 ELSE p

ClipHi(p, s, limit) ==
    IF p < 0 THEN (IF p + s < 0 THEN 0 ELSE Min(p + s, limit))
    ELSE IF p >= limit THEN limit
    ELSE IF s >= limit - p THEN limit ELSE p + s

(* C11: flush_region_graphics on a signed corner (x, y) and an unsigned     *)
(* size (w, h) ends like flush_region on the intersection of the rectangle  *)
(* with the display: the same calls and the same result; when the           *)
(* intersection is empty it makes no call and returns success.              *)
C11_GraphicsRegionClamping ==
    op.name = "flush_region_graphics" =>
        LET x0 == ClipLo(op.x)
            x1 == ClipHi(op.x, op.w, WIDTH)
            y0 == ClipLo(op.y)
            y1 == ClipHi(op.y, op.h, HEIGHT)
        IN  IF x1 <= x0 \/ y1 <= y0
            THEN events = <<>> /\ result = "ok"
            ELSE \E calls \in {FlushRegionCalls(buffer, flip, hasCs, x0, y0, x1 - x0, y1 - y0)} :
                    /\ events = CallsMade(calls, fault)
                    /\ result = Outcome(calls, fault)

(* The same, for corners whose negation does not overflow.                  *)
C11_ExceptMostNegative ==
    (op.name = "flush_region_graphics" /\ op.x # I32_MIN /\ op.y # I32_MIN)
        => C11_GraphicsRegionClamping

C11_Witness ==
    /\ op.name = "flush_region_graphics"
    /\ op.x < 0 /\ op.w > 255
    /\ result = "ok"
    /\ events # <<>>

(* The value of pixel (px, py) in a buffer: the bit set_pixel addresses.    *)
PixelValue(buf, f, px, py) == Bit(buf[PixelByte(f, px, py)], PixelBit(f, px))

InTrimmedRegion(px, py) ==
    /\ op.x <= px /\ px < op.x + Min(op.w, WIDTH - op.x)
    /\ op.y <= py /\ py < op.y + Min(op.h, HEIGHT - op.y)

(* C12: after clear_buffer_region(x, y, w, h) with no collaborator failure  *)
(* the call has returned success, every pixel inside the rectangle trimmed  *)
(* to the display is 0 and every pixel outside it has the value it had      *)
(* before; a rectangle with x >= 128, y >= 64, w = 0 or h = 0 leaves the    *)
(* buffer unchanged.                                                        *)
C12_ClearRegionExact ==
    (op.name = "clear_buffer_region" /\ fault = 0) =>
        /\ result = "ok"
        /\ IF RegionOnScreen(op.x, op.y, op.w, op.h)
           THEN \A px \in 0 .. WIDTH - 1, py \in 0 .. HEIGHT - 1 :
                   PixelValue(buffer, flip, px, py) =
                      IF InTrimmedRegion(px, py) THEN 0 ELSE PixelValue(pre, flip, px, py)
           ELSE buffer = pre

(* C13: of two successful flush calls with no call between them, the        *)
(* second sends the bus frames the first one sent.                          *)
C13_FlushIdempotent ==
    [][(/\ op.name = "flush" /\ result = "ok"
        /\ op'.name = "flush" /\ result' = "ok")
          => /\ buffer' = buffer
             /\ BusFrames(events') = BusFrames(events)]_vars

C13_Witness ==
    /\ op.name = "flush" /\ op.after = "flush"
    /\ result = "ok"
    /\ \E i \in 0 .. BUFFER_SIZE - 1 : buffer[i] # 0

(* C14: clear_buffer sets all 1024 bytes to 0 and calls no collaborator; a  *)
(* successful flush of the cleared buffer sends exactly 1024 data frames,   *)
(* whose 2048 payload bytes are all 0; clear ends as clear_buffer followed  *)
(* by flush does: buffer all 0, the calls and the result of that flush.     *)
C14_ClearThenFlush ==
    /\ op.name \in {"clear_buffer", "clear"} => \A i \in 0 .. BUFFER_SIZE - 1 : buffer[i] = 0
    /\ op.name = "clear_buffer" => events = <<>> /\ result = "ok"
    /\ (op.name = "flush" /\ op.after = "clear_buffer" /\ result = "ok") =>
          LET data == SelectSeq(events, IsDataFrame)
          IN  /\ Len(data) = 1024
              /\ \A i \in 1 .. Len(data) : data[i][2][2] = 0 /\ data[i][2][3] = 0
    /\ op.name = "clear" =>
          \E calls \in {FlushCalls([i \in 0 .. BUFFER_SIZE - 1 |-> 0], hasCs)} :
             /\ events = CallsMade(calls, fault)
             /\ result = Outcome(calls, fault)

C14_Witness ==
    /\ op.name = "flush" /\ op.after = "clear_buffer"
    /\ result = "ok"
    /\ nops > 0

(* C15: modify_buffer(f) calls f once for every byte i, in index order,     *)
(* with column i mod 16, row i div 16 and the byte's value, and stores the  *)
(* result in byte i; it calls no collaborator, and the orientation does not *)
(* enter.                                                                   *)
C15_ModifyBuffer ==
    op.name = "modify_buffer" =>
        /\ result = "ok"
        /\ Len(events) = BUFFER_SIZE
        /\ \A i \in 0 .. BUFFER_SIZE - 1 :
              /\ events[i + 1] = <<"f", <<i % 16, i \div 16, pre[i]>>>>
              /\ buffer[i] = ModifierApply(op.val, i % 16, i \div 16, pre[i])

C15_Witness ==
    /\ op.name = "modify_buffer" /\ op.val = "pattern"
    /\ flip
    /\ \E i \in 0 .. BUFFER_SIZE - 1 : pre[i] # 0 /\ buffer[i] # pre[i]

IsData(frames, i) == IsDataFrame(frames[i])

(* The positions of the data frames among the bus frames, in order.         *)
DataPositions(frames) ==
    SelectSeq([i \in 1 .. Len(frames) |-> i], LAMBDA i : IsDataFrame(frames[i]))

(* C16: a successful flush_region on a rectangle of trimmed height h sends  *)
(* exactly h addressing operations, each a pair of command frames, and      *)
(* exactly one of them directly before every run of data frames.            *)
C16_OneAddressPerRow ==
    RegionDone =>
        \E frames \in {BusFrames(events)} :
           /\ Cardinality({i \in 1 .. Len(frames) : IsCommandFrame(frames[i])})
                 = 2 * Min(op.h, HEIGHT - op.y)
           /\ \A i \in 1 .. Len(frames) :
                 (IsData(frames, i) /\ (i = 1 \/ ~IsData(frames, i - 1))) =>
                    /\ i >= 3
                    /\ IsCommandFrame(frames[i - 1])
                    /\ IsCommandFrame(frames[i - 2])
                    /\ i = 3 \/ IsData(frames, i - 3)

(* C17: in a successful flush_region, with ax and top the left edge and the *)
(* top row after the orientation transform, left = ax - ax mod 16 and right *)
(* the smallest multiple of 16 that is >= ax + w, the data frames are, row  *)
(* after row for r = top .. top + h - 1, the bytes                          *)
(* buffer[16 r + left/8 .. 16 r + right/8 - 1] in index order and nothing   *)
(* else, and the two frames directly before the data of row r are the       *)
(* set-address commands for row-address r mod 32 and column-address         *)
(* ax div 16, plus 8 when r >= 32.                                          *)
C17_RegionRowContent ==
    RegionDone =>
        \E frames \in {BusFrames(events)} :
        \E dpos \in {DataPositions(frames)} :
           LET w     == Min(op.w, WIDTH - op.x)
               h     == Min(op.h, HEIGHT - op.y)
               ax    == IF flip THEN WIDTH - (op.x + w) ELSE op.x
               top   == IF flip THEN HEIGHT - (op.y + h) ELSE op.y
               left  == ax - (ax % 16)
               right == 16 * ((ax + w + 15) \div 16)
               n     == (right - left) \div 8
           IN  /\ Len(dpos) = h * n
               /\ \A j \in 1 .. Len(dpos) :
                     FramePayload(frames[dpos[j]]) =
                        buffer[16 * (top + ((j - 1) \div n)) + (left \div 8) + ((j - 1) % n)]
               /\ \A k \in 0 .. h - 1 :
                     LET i == dpos[k * n + 1]
                         r == top + k
                     IN  /\ i >= 3
                         /\ IsCommandFrame(frames[i - 2])
                         /\ FramePayload(frames[i - 2]) = 128 + (r % 32)
                         /\ IsCommandFrame(frames[i - 1])
                         /\ FramePayload(frames[i - 1]) =
                               128 + (ax \div 16) + (IF r >= 32 THEN 8 ELSE 0)

C17_Witness ==
    /\ RegionDone
    /\ flip
    /\ op.x = 20 /\ op.y < 32 /\ op.y + op.h > 32 /\ op.h < 64
    /\ \E i \in 1 .. Len(events) : IsDataFrame(events[i]) /\ FramePayload(events[i]) # 0

(* C18: for x in 0..127 and y in 0..63 a successful set_address(x, y) sends *)
(* two command frames, the first with payload 0x80 | row_addr, the second   *)
(* with payload 0x80 | col_addr, where row_addr = y for y < 32 and y - 32   *)
(* otherwise, col_addr = x div 16 for y < 32 and x div 16 + 8 otherwise;    *)
(* row_addr is in 0..31 and col_addr in 0..15.                              *)
C18_AddressTranslation ==
    (op.name = "set_address" /\ result = "ok") =>
        LET row_addr == IF op.y < 32 THEN op.y ELSE op.y - 32
            col_addr == IF op.y < 32 THEN op.x \div 16 ELSE (op.x \div 16) + 8
        IN  /\ Len(events) = 2
            /\ IsCommandFrame(events[1]) /\ IsCommandFrame(events[2])
            /\ FramePayload(events[1]) = Or8(128, row_addr)
            /\ FramePayload(events[2]) = Or8(128, col_addr)
            /\ row_addr \in 0 .. 31
            /\ col_addr \in 0 .. 15

C18_Witness ==
    /\ op.name = "set_address" /\ result = "ok"
    /\ op.x = 127 /\ op.y = 32

(* The frame the protocol prescribes for prefix p and payload v.            *)
EncodedFrame(p, v) == <<"spi", <<p, And8(v, 240), And8(Shl8(v, 4), 240)>>>>

(* C19: every bus write is 3 bytes; write_command_param(opcode, param)      *)
(* writes [0xF8, v & 0xF0, (v << 4) & 0xF0] for v = opcode | param and      *)
(* write_data(v) writes [0xFA, v & 0xF0, (v << 4) & 0xF0], in 8-bit         *)
(* arithmetic; v is byte2 | (byte3 >> 4) and the low nibbles of byte2 and   *)
(* byte3 are 0.                                                             *)
C19_FrameEncoding ==
    /\ \A i \in 1 .. Len(events) :
          IsFrame(events[i]) =>
             /\ Len(events[i][2]) = 3
             /\ events[i][2][1] \in {248, 250}
             /\ And8(events[i][2][2], 15) = 0
             /\ And8(events[i][2][3], 15) = 0
    /\ op.name = "write_command_param" =>
          /\ events = <<EncodedFrame(248, Or8(op.x, op.val))>>
          /\ Or8(events[1][2][2], Shr8(events[1][2][3], 4)) = Or8(op.x, op.val)
    /\ op.name = "write_data" =>
          /\ events = <<EncodedFrame(250, op.val)>>
          /\ Or8(events[1][2][2], Shr8(events[1][2][3], 4)) = op.val

C19_Witness ==
    /\ op.name = "write_data" /\ op.val = 165
    /\ events = <<<<"spi", <<250, 160, 80>>>>>>

(* C20: for x < 128 and y < 64, flush_region(x, y, w, h) makes the calls    *)
(* and returns the result of flush_region(x, y, min(w, 128 - x),            *)
(* min(h, 64 - y)), also when x + w or y + h exceeds 255, and every buffer  *)
(* index it reads is in 0..1023.                                            *)
C20_RegionTrimming ==
    (op.name = "flush_region" /\ op.x < 128 /\ op.y < 64) =>
        /\ \E calls \in {FlushRegionCalls(buffer, flip, hasCs, op.x, op.y,
                                          Min(op.w, 128 - op.x), Min(op.h, 64 - op.y))} :
              /\ events = CallsMade(calls, fault)
              /\ result = Outcome(calls, fault)
        /\ RegionIndicesRead(flip, op.x, op.y, op.w, op.h) \subseteq 0 .. 1023

C20_Witness ==
    /\ op.name = "flush_region" /\ result = "ok"
    /\ op.x > 0 /\ op.x < 128 /\ op.y < 64
    /\ op.x + op.w > 255
    /\ flip

(* C21: clear_buffer_region never ends in a panic: every buffer index it    *)
(* writes is in 0..1023 and no 8-bit sum or product it forms exceeds 255,   *)
(* for both orientations and also for rectangles that reach the right and   *)
(* the bottom edge.                                                         *)
C21_ClearRegionMemorySafe ==
    op.name = "clear_buffer_region" =>
        /\ result # "panic"
        /\ RegionOnScreen(op.x, op.y, op.w, op.h) =>
              LET w     == TrimW(op.x, op.w)
                  h     == TrimH(op.y, op.h)
                  y     == IF flip THEN HEIGHT - (op.y + h) ELSE op.y
                  adj_x == IF flip THEN WIDTH - (op.x + w) ELSE op.x
                  end   == ((adj_x + w) \div 8) + 1
              IN  /\ op.x + w <= 255 /\ op.y + h <= 255
                  /\ adj_x + w <= 255 /\ end * 8 <= 255
                  /\ \A r \in y .. y + h - 1 : \A c \in adj_x \div 8 .. end - 1 :
                        r * ROW_SIZE + c \in 0 .. BUFFER_SIZE - 1

(* C22: init, flush, flush_region and flush_region_graphics leave the       *)
(* buffer as it was, whatever their outcome; no step changes the flip       *)
(* flag; the buffer is all 0 at construction.                               *)
C22_FlushOnlyReads ==
    /\ \A i \in 0 .. BUFFER_SIZE - 1 : buffer[i] = 0
    /\ [][/\ flip' = flip
          /\ op'.name \in {"init", "flush", "flush_region", "flush_region_graphics"}
                => buffer' = buffer]_vars

C22_Witness ==
    /\ op.name \in {"flush", "flush_region", "flush_region_graphics"}
    /\ result \notin {"ok", "panic"}
    /\ fault > 2
    /\ flip
    /\ \E i \in 0 .. BUFFER_SIZE - 1 : buffer[i] # 0

====
